---- MODULE Spec2Model ----
(***************************************************************************)
(* A model of xsoar-client: the platform Client (xsoar_client.py), the     *)
(* ArtifactProvider it composes with (artifact_provider.py) and the        *)
(* provider classes of artifact_providers/ (s3.py, azure.py).              *)
(*                                                                         *)
(* Python values are modelled as follows.  A version string is the         *)
(* sequence of its dot-separated numeric components ("1.2.0" is            *)
(* <<1, 2, 0>>), so that string equality is sequence equality and          *)
(* "1.2" # "1.2.0".  A value that may be None is a record with a tag.      *)
(* The outcome of a call is a record saying whether the call returned or   *)
(* raised, and the Python exception class it raised.                       *)
(***************************************************************************)
EXTENDS Naturals, Sequences, FiniteSets

\* ------------------------------------------------------------------ bounds

\* Largest number of records in an installed-packs answer of the platform.
MaxPacks == 1
\* Largest number of HTTP requests counted per query.
MaxRequests == 2
\* Largest number of deploy_pack calls counted.
MaxDeploys == 2

\* --------------------------------------------------------- program constants

XSOAR_OLD_VERSION == 6

\* ------------------------------------------------------- version ordering

\* packaging.version.parse, on a release-only version: the comparison key of
\* a Version is its release tuple with the trailing zeros dropped.
RECURSIVE VersionParse(_)
VersionParse(s) ==
    IF Len(s) > 0 /\ s[Len(s)] = 0
    THEN VersionParse(SubSeq(s, 1, Len(s) - 1))
    ELSE s

\* Python's < on tuples of integers: the first differing component decides,
\* and a proper prefix is smaller.
TupleLess(a, b) ==
    \/ \E i \in 1..Len(a) :
          /\ i <= Len(b)
          /\ a[i] < b[i]
          /\ \A j \in 1..(i - 1) : a[j] = b[j]
    \/ /\ Len(a) < Len(b)
       /\ \A j \in 1..Len(a) : a[j] = b[j]

\* key(a) < key(b) for key = version.parse.
VersionLess(a, b) == TupleLess(VersionParse(a), VersionParse(b))

\* Python's max(versions, key=version.parse) on a non-empty list: the running
\* maximum is replaced only by an element whose key is strictly greater.
RECURSIVE MaxFrom(_, _, _)
MaxFrom(versions, i, best) ==
    IF i > Len(versions) THEN best
    ELSE MaxFrom(versions, i + 1,
                 IF VersionLess(best, versions[i]) THEN versions[i] ELSE best)

\* A selection that keeps the smallest element instead.
RECURSIVE MinFrom(_, _, _)
MinFrom(versions, i, best) ==
    IF i > Len(versions) THEN best
    ELSE MinFrom(versions, i + 1,
                 IF VersionLess(versions[i], best) THEN versions[i] ELSE best)

MinByVersion(versions) == MinFrom(versions, 2, versions[1])

MaxByVersion(versions) == MaxFrom(versions, 2, versions[1])

\* ------------------------------------------------------------- value pools

\* Installed versions the platform reports.
CurrentPool == {<<1, 2>>, <<1, 10, 0>>}
\* Changelogs (version lists) the platform reports.
ChangelogPool == {<<>>, <<<<1, 2>>, <<1, 10, 0>>>>, <<<<1, 2, 0>>, <<1, 2>>>>}
\* Version directories a storage listing returns for one pack.
ListingPool == {<<>>, <<<<1, 2>>>>, <<<<1, 2, 0>>>>, <<<<1, 2>>, <<1, 10, 0>>>>}
\* Pack authors the platform reports.
Authors == {"MyOrg", "Cortex XSOAR"}
\* Pack identifiers: opaque names, numbered.
PackIds == 1..MaxPacks

\* A value of Python type None, and a Python list.
NoneVal == [tag |-> "None", items |-> <<>>]
ListVal(items) == [tag |-> "list", items |-> items]

\* Installed Pack Records of the pack with identifier id.
RecordsOf(id) ==
    [id : {id}, currentVersion : CurrentPool, author : Authors,
     updateAvailable : BOOLEAN, changelog : ChangelogPool]

\* Lists of n records with the identifiers 1..n, in that order.
RECURSIVE SnapshotsOfLen(_)
SnapshotsOfLen(n) ==
    IF n = 0 THEN {<<>>}
    ELSE {Append(s, r) : s \in SnapshotsOfLen(n - 1), r \in RecordsOf(n)}

Snapshots == UNION {SnapshotsOfLen(n) : n \in 0..MaxPacks}

\* What the platform answers to one HTTP request: no answer at all (a
\* transport error), or a status with a JSON body (a list, or null).
Responses ==
    {[status |-> 0, body |-> NoneVal]}
    \cup [status : {404, 500}, body : {NoneVal}]
    \cup [status : {200}, body : {NoneVal} \cup {ListVal(s) : s \in Snapshots}]

TransportFailed(resp) == resp.status = 0

\* Response.raise_for_status raises HTTPError on a 4xx or 5xx status.
RaisesForStatus(resp) == resp.status >= 400 /\ resp.status < 600

\* What a storage listing call does: it fails, or returns version names.
ListingOutcomes ==
    {[ok |-> FALSE, versions |-> <<>>]}
    \cup {[ok |-> TRUE, versions |-> l] : l \in ListingPool}

\* Outcomes of a call.
Returned(v) == [kind |-> "return", exc |-> "", value |-> v]
Raised(e) == [kind |-> "raise", exc |-> e, value |-> NoneVal]
RaisedWith(e, msg) == [kind |-> "raise", exc |-> e, value |-> msg]

\* ------------------------------------------------------------------ state

VARIABLES
    server_version,        \* Client.server_version
    custom_pack_authors,   \* Client.custom_pack_authors
    artifacts_repo,        \* Client.artifact_provider.artifacts_repo
    installed_packs,       \* Client.installed_packs: None or the fetched body
    installed_expired,     \* Client.installed_expired: None or the fetched body
    n_requests,            \* requests sent so far, per query
    n_fetched,             \* requests answered 2xx with a list so far, per query
    last_request,          \* method and endpoint of the last platform request
    ret,                   \* the last call: its name and its outcome
    update_available,      \* get_outdated_packs: its local list when it ended
    processed,             \* get_outdated_packs: loop iterations it completed
    provider_log,          \* get_outdated_packs: the provider calls it made
    args,                  \* the arguments of the last pack operation
    access,                \* what the last pack operation touched
    staging,               \* the staging files that exist on disk
    uploads,               \* the upload_content_packs calls of the last deploy_pack
    n_deploys,             \* deploy_pack calls so far
    provider_class,        \* the class of the artifact provider
    stored,                \* the pack versions in the storage, as <<id, version>>
    probe,                 \* what the storage answered to the last provider call
    access_token,          \* AzureArtifactProvider.access_token
    env_token,             \* the environment variable AZURE_STORAGE_SAS_TOKEN
    service,               \* whether the BlobServiceClient exists
    container_client,      \* whether the ContainerClient exists
    n_services,            \* BlobServiceClient objects created so far
    version_list           \* the list last given to max(..., key=version.parse)

configVars == <<server_version, custom_pack_authors, artifacts_repo>>
cacheVars == <<installed_packs, installed_expired, n_requests, n_fetched,
               last_request>>
reconVars == <<update_available, processed, provider_log>>
deployVars == <<args, access, staging, uploads, n_deploys>>
azureVars == <<access_token, env_token, service, container_client, n_services>>
providerVars == <<provider_class, stored, probe, azureVars>>

vars == <<configVars, cacheVars, reconVars, deployVars, providerVars,
          version_list, ret>>

Queries == {"installed", "expired"}

\* The arguments of is_pack_available, download_pack and deploy_pack.
Args(pack_id, pack_version, custom) ==
    [pack_id |-> pack_id, pack_version |-> pack_version, custom |-> custom]
NoArgs == Args(0, <<>>, FALSE)

\* What a pack operation touched: a method of the artifact provider, the
\* object storage behind it, the upstream marketplace.
Access(provider, storage, marketplace) ==
    [provider |-> provider, storage |-> storage, marketplace |-> marketplace]
NoAccess == Access(FALSE, FALSE, FALSE)

\* Client._make_request: the method and the endpoint it is called with.
Request(method, endpoint) == [method |-> method, endpoint |-> endpoint]
NoRequest == Request("", "")

\* The record of a call: its name, its outcome, and whether it sent a
\* request to the platform.
Call(op, outcome, sent) ==
    [op |-> op, kind |-> outcome.kind, exc |-> outcome.exc,
     value |-> outcome.value, sent |-> sent]

\* The state no call has touched yet: both caches None, nothing staged.
InitClientState ==
    /\ version_list = <<>>
    /\ installed_packs = NoneVal
    /\ installed_expired = NoneVal
    /\ n_requests = [q \in Queries |-> 0]
    /\ n_fetched = [q \in Queries |-> 0]
    /\ last_request = NoRequest
    /\ ret = Call("__init__", Returned(NoneVal), FALSE)
    /\ update_available = <<>>
    /\ processed = 0
    /\ provider_log = <<>>
    /\ args = NoArgs
    /\ access = NoAccess
    /\ staging = {}
    /\ uploads = <<>>
    /\ n_deploys = 0

\* The fields of a Client after __init__, its provider's apart.
InitClientFields(versions) ==
    /\ server_version \in versions
    /\ custom_pack_authors = {"MyOrg"}
    /\ InitClientState

\* Client.__init__.  The Client builds its provider as
\* ArtifactProvider(location=artifacts_location, s3_bucket_name=...): an
\* empty location leaves artifacts_repo None, "S3" sets it; with "Azure" the
\* account URL the Client passes is empty and construction fails.  The
\* Client specifications draw the answers of the storage as inputs of the
\* calls, and do not use stored.
InitClient(versions, locations) ==
    /\ InitClientFields(versions)
    /\ artifacts_repo \in locations
    /\ provider_class = "ArtifactProvider"
    /\ stored = {}
    /\ probe = "unasked"
    /\ access_token = ""
    /\ env_token = ""
    /\ service = FALSE
    /\ container_client = FALSE
    /\ n_services = 0

\* ------------------------------------------------------- one-shot caches

InstalledEndpoint(v) ==
    IF v > XSOAR_OLD_VERSION
    THEN "/xsoar/public/v1/contentpacks/metadata/installed"
    ELSE "/contentpacks/metadata/installed"

ExpiredEndpoint(v) ==
    IF v > XSOAR_OLD_VERSION
    THEN "/xsoar/contentpacks/installed-expired"
    ELSE "/contentpacks/installed-expired"

\* A cache test that always fetches.
NeedsFetchAlways(cache) == TRUE
\* A test that takes an empty list for a cache never filled.
NeedsFetchFalsy(cache) == cache = NoneVal \/ cache = ListVal(<<>>)

\* "if self.installed_packs is None": the guard of the fetch.
NeedsFetch(cache) == cache = NoneVal

\* The body shared by get_installed_packs and get_installed_expired_packs,
\* from the cache test to the return: the field after the call, the outcome,
\* and whether a request was sent.
CachedFetch(cache, resp) ==
    IF ~NeedsFetch(cache)
    THEN [cache |-> cache, out |-> Returned(cache), sent |-> FALSE]
    ELSE IF TransportFailed(resp)
    THEN [cache |-> cache, out |-> Raised("ConnectionError"), sent |-> TRUE]
    ELSE IF RaisesForStatus(resp)
    THEN [cache |-> cache, out |-> Raised("HTTPError"), sent |-> TRUE]
    ELSE [cache |-> resp.body, out |-> Returned(resp.body), sent |-> TRUE]

\* The request counters after a call of query q that answered resp.
CountRequest(q, f, resp) ==
    /\ n_requests' = [n_requests EXCEPT ![q] = @ + (IF f.sent THEN 1 ELSE 0)]
    /\ n_fetched' = [n_fetched EXCEPT
                       ![q] = @ + (IF f.sent /\ f.out.kind = "return"
                                      /\ f.out.value.tag = "list" THEN 1 ELSE 0)]

get_installed_packs(resp) ==
    LET f == CachedFetch(installed_packs, resp) IN
    /\ f.sent => n_requests["installed"] < MaxRequests
    /\ installed_packs' = f.cache
    /\ CountRequest("installed", f, resp)
    /\ last_request' = IF f.sent
                       THEN Request("GET", InstalledEndpoint(server_version))
                       ELSE last_request
    /\ ret' = Call("get_installed_packs", f.out, f.sent)
    /\ UNCHANGED <<version_list, configVars, installed_expired, reconVars, deployVars,
                   providerVars>>

get_installed_expired_packs(resp) ==
    LET f == CachedFetch(installed_expired, resp) IN
    /\ f.sent => n_requests["expired"] < MaxRequests
    /\ installed_expired' = f.cache
    /\ CountRequest("expired", f, resp)
    /\ last_request' = IF f.sent
                       THEN Request("GET", ExpiredEndpoint(server_version))
                       ELSE last_request
    /\ ret' = Call("get_installed_expired_packs", f.out, f.sent)
    /\ UNCHANGED <<version_list, configVars, installed_packs, reconVars, deployVars,
                   providerVars>>

\* Client.is_installed: any() over the installed records that carry
\* pack_id, and pack_version too unless it is the empty string.
IsInstalledIn(packs, pack_id, pack_version) ==
    IF pack_version = <<>>
    THEN \E i \in 1..Len(packs) : packs[i].id = pack_id
    ELSE \E i \in 1..Len(packs) :
            /\ packs[i].id = pack_id
            /\ packs[i].currentVersion = pack_version

\* How is_installed ends after its call of get_installed_packs: with that
\* call's exception, with TypeError when it returned None (a null body is
\* not iterable), else with the boolean.
IsInstalled(fetched, pack_id, pack_version) ==
    IF fetched.kind = "raise" THEN fetched
    ELSE IF fetched.value = NoneVal THEN Raised("TypeError")
    ELSE Returned(IsInstalledIn(fetched.value.items, pack_id, pack_version))

is_installed(pack_id, pack_version, resp) ==
    LET f == CachedFetch(installed_packs, resp) IN
    /\ f.sent => n_requests["installed"] < MaxRequests
    /\ installed_packs' = f.cache
    /\ CountRequest("installed", f, resp)
    /\ last_request' = IF f.sent
                       THEN Request("GET", InstalledEndpoint(server_version))
                       ELSE last_request
    /\ args' = Args(pack_id, pack_version, FALSE)
    /\ ret' = Call("is_installed", IsInstalled(f.out, pack_id, pack_version),
                   f.sent)
    /\ UNCHANGED <<version_list, configVars, installed_expired, reconVars,
                   access, staging, uploads, n_deploys, providerVars>>

\* ------------------------------------------- Client: platform requests

\* response.raise_for_status() after a request, then the value returned.
Checked(resp, value) ==
    IF TransportFailed(resp) THEN Raised("ConnectionError")
    ELSE IF RaisesForStatus(resp) THEN Raised("HTTPError")
    ELSE Returned(value)

\* response.content: the bytes of the body, not parsed.
Content(resp) == [tag |-> "content", json |-> resp.body]

\* What a call that may send one request leaves alone: everything but the
\* last request and its own outcome.
requestFrame ==
    <<version_list, configVars, installed_packs, installed_expired,
      n_requests, n_fetched, reconVars, deployVars, providerVars>>

HealthEndpoint(v) == IF v > XSOAR_OLD_VERSION THEN "/xsoar/health" ELSE "/health"

\* Client.test_connectivity: any exception of the request or of
\* raise_for_status becomes the built-in ConnectionError.
TestConnectivity(resp) ==
    IF TransportFailed(resp) \/ RaisesForStatus(resp)
    THEN RaisedWith("ConnectionError", "Failed to connect to XSOAR server.")
    ELSE Returned(TRUE)

test_connectivity(resp) ==
    /\ last_request' = Request("GET", HealthEndpoint(server_version))
    /\ ret' = Call("test_connectivity", TestConnectivity(resp), TRUE)
    /\ UNCHANGED requestFrame

\* Client.get_case: POST /incidents/search, raise_for_status, the JSON body.
get_case(resp) ==
    /\ last_request' = Request("POST", "/incidents/search")
    /\ ret' = Call("get_case", Checked(resp, resp.body), TRUE)
    /\ UNCHANGED requestFrame

CaseEndpoint(v) ==
    IF v > XSOAR_OLD_VERSION THEN "/xsoar/public/v1/incident" ELSE "/incident"

\* Client.create_case: POST to the incident endpoint of the version.
create_case(resp) ==
    /\ last_request' = Request("POST", CaseEndpoint(server_version))
    /\ ret' = Call("create_case", Checked(resp, resp.body), TRUE)
    /\ UNCHANGED requestFrame

\* The item types and identifiers the item calls are given.
ItemTypes == {"playbook", "script"}
ItemIds == {"pb1"}

\* download_item, attach_item, detach_item: only "playbook" has an
\* endpoint; any other type raises ValueError before a request.
HasEndpoint(item_type) == item_type = "playbook"

ItemOutcome(item_type, resp, value, msg) ==
    IF HasEndpoint(item_type) THEN Checked(resp, value)
    ELSE RaisedWith("ValueError", msg)

download_item(item_type, item_id, resp) ==
    /\ last_request' =
          IF HasEndpoint(item_type)
          THEN Request("GET", "/" \o item_type \o "/" \o item_id \o "/yaml")
          ELSE last_request
    /\ ret' = Call("download_item",
                   ItemOutcome(item_type, resp, Content(resp),
                               "Uknown item_type selected for download. Must be one of [\"playbook\"]"),
                   HasEndpoint(item_type))
    /\ UNCHANGED requestFrame

attach_item(item_type, item_id, resp) ==
    /\ last_request' =
          IF HasEndpoint(item_type)
          THEN Request("POST", "/" \o item_type \o "/attach/" \o item_id)
          ELSE last_request
    /\ ret' = Call("attach_item",
                   ItemOutcome(item_type, resp, NoneVal,
                               "Uknown item_type selected. Must be one of [\"playbook\"]"),
                   HasEndpoint(item_type))
    /\ UNCHANGED requestFrame

detach_item(item_type, item_id, resp) ==
    /\ last_request' =
          IF HasEndpoint(item_type)
          THEN Request("POST", "/" \o item_type \o "/detach/" \o item_id)
          ELSE last_request
    /\ ret' = Call("detach_item",
                   ItemOutcome(item_type, resp, NoneVal,
                               "Uknown item_type selected. Must be one of [\"playbook\"]"),
                   HasEndpoint(item_type))
    /\ UNCHANGED requestFrame

\* ---------------------------------------- ArtifactProvider (the Client's)

\* ArtifactProvider._get_latest_version_s3: list_objects_v2 may fail; its
\* answer holds no "CommonPrefixes" key when nothing is stored under the
\* prefix, so result.get("CommonPrefixes") is None and iterating it raises
\* TypeError; otherwise the maximum of the version names.
GetLatestVersionS3(listing) ==
    IF ~listing.ok THEN Raised("ClientError")
    ELSE IF listing.versions = <<>> THEN Raised("TypeError")
    ELSE Returned(MaxByVersion(listing.versions))

\* ArtifactProvider._get_latest_version_azure: list_blob_names may fail; on
\* an empty listing max() of the empty list raises ValueError.
GetLatestVersionAzure(listing) ==
    IF ~listing.ok THEN Raised("HttpResponseError")
    ELSE IF listing.versions = <<>> THEN Raised("ValueError")
    ELSE Returned(MaxByVersion(listing.versions))

\* What the listing call of get_latest_version found: "unasked" when no
\* listing call is made, "failed", "empty" or "some".
Listed(repo, listing) ==
    IF repo \notin {"S3", "Azure"} THEN "unasked"
    ELSE IF ~listing.ok THEN "failed"
    ELSE IF listing.versions = <<>> THEN "empty"
    ELSE "some"

\* ArtifactProvider.get_latest_version: dispatch on artifacts_repo.
GetLatestVersion(repo, listing) ==
    IF repo = "S3" THEN GetLatestVersionS3(listing)
    ELSE IF repo = "Azure" THEN GetLatestVersionAzure(listing)
    ELSE Raised("NotImplementedError")

\* ----------------------------------------------------- get_outdated_packs

\* "if pack['author'] in self.custom_pack_authors".
IsCustom(pack, authors) == pack.author \in authors

\* A test that compares the parsed versions instead of the strings.
UpToDateByVersion(latest, pack) ==
    VersionParse(latest) = VersionParse(pack.currentVersion)

\* "if latest_version == pack['currentVersion']: continue": string equality.
UpToDate(latest, pack) == latest = pack.currentVersion

\* The author field of an entry of the upstream branch.
UpstreamAuthor == "Upstream"

Entry(pack, latest, author) ==
    [id |-> pack.id, currentVersion |-> pack.currentVersion,
     latest |-> latest, author |-> author]

\* The state of the loop of get_outdated_packs: the packs processed so far,
\* update_available, the provider calls made, and how the loop ended.
LoopState(done, acc, log, out) ==
    [done |-> done, acc |-> acc, log |-> log, out |-> out]

\* The loop body on packs[i] and on, with listings[k] the storage listing
\* the provider sees for pack k.  No exception is caught in the loop: the
\* first one raised ends the call.
RECURSIVE Reconcile(_, _, _, _, _, _, _)
Reconcile(packs, i, acc, log, authors, repo, listings) ==
    IF i > Len(packs) THEN LoopState(i - 1, acc, log, Returned(acc))
    ELSE LET pack == packs[i] IN
      IF IsCustom(pack, authors)
      THEN LET got == GetLatestVersion(repo, listings[pack.id])
               log2 == Append(log, [id |-> pack.id, kind |-> got.kind,
                                    exc |-> got.exc,
                                    latest |-> IF got.kind = "return"
                                               THEN got.value ELSE <<>>,
                                    listed |-> Listed(repo, listings[pack.id])])
           IN IF got.kind = "raise"
              THEN LoopState(i - 1, acc, log2, Raised(got.exc))
              ELSE IF UpToDate(got.value, pack)
              THEN Reconcile(packs, i + 1, acc, log2, authors, repo, listings)
              ELSE Reconcile(packs, i + 1,
                             Append(acc, Entry(pack, got.value, pack.author)),
                             log2, authors, repo, listings)
      ELSE IF ~pack.updateAvailable
      THEN Reconcile(packs, i + 1, acc, log, authors, repo, listings)
      ELSE IF pack.changelog = <<>>
      THEN LoopState(i - 1, acc, log, Raised("ValueError"))
      ELSE Reconcile(packs, i + 1,
                     Append(acc, Entry(pack, MaxByVersion(pack.changelog),
                                       UpstreamAuthor)),
                     log, authors, repo, listings)

\* get_outdated_packs, whole: the cached fetch of the installed-expired
\* packs, then the loop.  A null body makes "for pack in expired_packs"
\* raise TypeError.
get_outdated_packs(resp, listings) ==
    LET f == CachedFetch(installed_expired, resp)
        loop == IF f.out.kind = "raise"
                THEN LoopState(0, <<>>, <<>>, Raised(f.out.exc))
                ELSE IF f.out.value.tag = "None"
                THEN LoopState(0, <<>>, <<>>, Raised("TypeError"))
                ELSE Reconcile(f.out.value.items, 1, <<>>, <<>>,
                               custom_pack_authors, artifacts_repo, listings)
    IN
    /\ f.sent => n_requests["expired"] < MaxRequests
    /\ installed_expired' = f.cache
    /\ CountRequest("expired", f, resp)
    /\ last_request' = IF f.sent
                       THEN Request("GET", ExpiredEndpoint(server_version))
                       ELSE last_request
    /\ update_available' = loop.acc
    /\ provider_log' = loop.log
    /\ processed' = loop.done
    /\ ret' = Call("get_outdated_packs",
                   IF loop.out.kind = "return"
                   THEN Returned(ListVal(loop.out.value))
                   ELSE Raised(loop.out.exc),
                   f.sent)
    /\ UNCHANGED <<version_list, configVars, installed_packs, deployVars, providerVars>>

\* ------------------------------- ArtifactProvider: existence and download

\* What the storage answers to a request for one object: it is there, it
\* is not there, or the request fails otherwise.
ObjectAnswers == {"found", "missing", "error"}

\* The bytes of a pack artifact.
PackBytes(pack_id, pack_version) ==
    [pack_id |-> pack_id, pack_version |-> pack_version]

\* ArtifactProvider._is_available_s3: load() of the object inside
\* "except Exception: return False".
IsAvailableS3(answer) == Returned(answer = "found")

\* ArtifactProvider._is_available_azure: get_blob_properties() inside
\* "except ResourceNotFoundError: return False"; no other error is caught.
IsAvailableAzure(answer) ==
    IF answer = "found" THEN Returned(TRUE)
    ELSE IF answer = "missing" THEN Returned(FALSE)
    ELSE Raised("HttpResponseError")

\* A dispatch that sends every location to the bucket.
IsAvailableNoDispatch(repo, answer) == IsAvailableS3(answer)

\* ArtifactProvider.is_available: dispatch on artifacts_repo.
IsAvailable(repo, answer) ==
    IF repo = "S3" THEN IsAvailableS3(answer)
    ELSE IF repo = "Azure" THEN IsAvailableAzure(answer)
    ELSE Raised("NotImplementedError")

\* ArtifactProvider._download_s3: obj.get() and the read of its body.
DownloadS3(answer, pack_id, pack_version) ==
    IF answer = "found" THEN Returned(PackBytes(pack_id, pack_version))
    ELSE IF answer = "missing" THEN Raised("NoSuchKey")
    ELSE Raised("ClientError")

\* ArtifactProvider._download_azure: download_blob() and readall().
DownloadAzure(answer, pack_id, pack_version) ==
    IF answer = "found" THEN Returned(PackBytes(pack_id, pack_version))
    ELSE IF answer = "missing" THEN Raised("ResourceNotFoundError")
    ELSE Raised("HttpResponseError")

\* ArtifactProvider.download: dispatch on artifacts_repo.
Download(repo, answer, pack_id, pack_version) ==
    IF repo = "S3" THEN DownloadS3(answer, pack_id, pack_version)
    ELSE IF repo = "Azure" THEN DownloadAzure(answer, pack_id, pack_version)
    ELSE Raised("NotImplementedError")

\* Whether a method of the provider reaches the object storage.
TouchesStorage(repo) == repo \in {"S3", "Azure"}

\* ------------------------------------------- Client: pack availability

\* What the marketplace answers: nothing (0, a transport error) or a status.
MarketStatuses == {0, 200, 404}

\* Client.is_pack_available: outcome and what was touched.
IsPackAvailable(custom, repo, answer, status) ==
    IF custom
    THEN [out |-> IsAvailable(repo, answer),
          access |-> Access(TRUE, TouchesStorage(repo), FALSE)]
    ELSE [out |-> IF status = 0 THEN Raised("ConnectionError")
                  ELSE Returned(status = 200),
          access |-> Access(FALSE, FALSE, TRUE)]

is_pack_available(pack_id, pack_version, custom, answer, status) ==
    LET r == IsPackAvailable(custom, artifacts_repo, answer, status) IN
    /\ args' = Args(pack_id, pack_version, custom)
    /\ access' = r.access
    /\ ret' = Call("is_pack_available", r.out, FALSE)
    /\ UNCHANGED <<version_list, configVars, cacheVars, reconVars, staging, uploads,
                   n_deploys, providerVars>>

\* Client.download_pack: outcome and what was touched.
DownloadPack(custom, repo, answer, status, pack_id, pack_version) ==
    IF custom
    THEN [out |-> Download(repo, answer, pack_id, pack_version),
          access |-> Access(TRUE, TouchesStorage(repo), FALSE)]
    ELSE [out |-> IF status = 0 THEN Raised("ConnectionError")
                  ELSE IF status >= 400 /\ status < 600 THEN Raised("HTTPError")
                  ELSE Returned(PackBytes(pack_id, pack_version)),
          access |-> Access(FALSE, FALSE, TRUE)]

download_pack(pack_id, pack_version, custom, answer, status) ==
    LET r == DownloadPack(custom, artifacts_repo, answer, status,
                          pack_id, pack_version) IN
    /\ args' = Args(pack_id, pack_version, custom)
    /\ access' = r.access
    /\ ret' = Call("download_pack", r.out, FALSE)
    /\ UNCHANGED <<version_list, configVars, cacheVars, reconVars, staging, uploads,
                   n_deploys, providerVars>>

\* ------------------------------------------------------ Client: deploy

\* What upload_content_packs does: it succeeds, the platform rejects the
\* pack (ApiException), or the call fails otherwise (urllib3's
\* MaxRetryError when the platform cannot be reached).
UploadOutcomes == {"ok", "ApiException", "MaxRetryError"}

\* Parameters that verify a custom pack all the same.
DeployParamsVerifying(custom) ==
    [skip_validation |-> IF custom THEN "true" ELSE "false",
     skip_verify |-> "false"]

\* The params of deploy_pack: "true"/"true" if custom, else "false"/"false".
DeployParams(custom) ==
    IF custom
    THEN [skip_validation |-> "true", skip_verify |-> "true"]
    ELSE [skip_validation |-> "false", skip_verify |-> "false"]

\* A staging file: its name and the bytes written to it.
StagingFile(name, data) == [name |-> name, data |-> data]
NoData == PackBytes(0, <<>>)

\* An outcome that reports success whatever the upload did.
DeployOutcomeSwallowing(downloaded, write_fails, upload) ==
    IF downloaded.kind = "raise" THEN downloaded ELSE Returned(TRUE)

\* How deploy_pack ends: with the exception of download_pack or of the
\* write, with RuntimeError for an ApiException of the upload, with any
\* other exception of the upload as it is, else with True.
DeployOutcome(downloaded, write_fails, upload) ==
    IF downloaded.kind = "raise" THEN downloaded
    ELSE IF write_fails THEN Raised("OSError")
    ELSE IF upload = "ApiException" THEN Raised("RuntimeError")
    ELSE IF upload = "ok" THEN Returned(TRUE)
    ELSE Raised(upload)

\* Client.deploy_pack, whole.  tmp is a NamedTemporaryFile that the code
\* neither closes nor deletes: the file goes when the object is finalised.
\* When the call raises, the traceback of the exception holds the frame and
\* with it tmp, so the file is still there when the caller gets the
\* exception.  When the call returns, tmp is unreachable: it is finalised at
\* once where objects are reference-counted (collected), and later where
\* they are not.
deploy_pack(pack_id, pack_version, custom, answer, status, write_fails, upload, collected) ==
    LET dl == DownloadPack(custom, artifacts_repo, answer, status,
                           pack_id, pack_version)
        params == DeployParams(custom)
        name == n_deploys + 1
        file == StagingFile(name, IF write_fails THEN NoData ELSE dl.out.value)
        uploaded == dl.out.kind = "return" /\ ~write_fails
        out == DeployOutcome(dl.out, write_fails, upload)
    IN
    /\ n_deploys < MaxDeploys
    /\ n_deploys' = n_deploys + 1
    /\ args' = Args(pack_id, pack_version, custom)
    /\ access' = dl.access
    /\ uploads' = IF uploaded
                  THEN <<[file |-> name, written |-> file.data,
                          skip_validation |-> params.skip_validation,
                          skip_verify |-> params.skip_verify,
                          outcome |-> upload]>>
                  ELSE <<>>
    /\ staging' = IF dl.out.kind = "raise" THEN staging
                  ELSE IF out.kind = "return" /\ collected THEN staging
                  ELSE staging \cup {file}
    /\ ret' = Call("deploy_pack", out, FALSE)
    /\ UNCHANGED <<version_list, configVars, cacheVars, reconVars, providerVars>>

\* The finaliser of a NamedTemporaryFile that nothing references any more
\* (the exception that held it was dropped, or a collection ran): it closes
\* the file, which deletes it.
finalize_tmp(file) ==
    /\ file \in staging
    /\ staging' = staging \ {file}
    /\ UNCHANGED <<version_list, configVars, cacheVars, reconVars, args, access, uploads,
                   n_deploys, providerVars, ret>>

\* The params of deploy_zip: each flag as the string "true" or "false".
ZipParams(skip_validation, skip_verify) ==
    [skip_validation |-> IF skip_validation THEN "true" ELSE "false",
     skip_verify |-> IF skip_verify THEN "true" ELSE "false"]

\* Client.deploy_zip: one upload of the caller's file (0 here), with no
\* handler: whatever upload_content_packs raises leaves the method as it is.
deploy_zip(skip_validation, skip_verify, upload) ==
    LET params == ZipParams(skip_validation, skip_verify) IN
    /\ uploads' = <<[file |-> 0, written |-> NoData,
                     skip_validation |-> params.skip_validation,
                     skip_verify |-> params.skip_verify,
                     outcome |-> upload]>>
    /\ ret' = Call("deploy_zip",
                   IF upload = "ok" THEN Returned(TRUE) ELSE Raised(upload),
                   FALSE)
    /\ UNCHANGED <<version_list, configVars, cacheVars, reconVars, args,
                   access, staging, n_deploys, providerVars>>

\* Client.delete: not implemented.
delete(pack_id) ==
    /\ args' = Args(pack_id, <<>>, FALSE)
    /\ ret' = Call("delete", Raised("NotImplementedError"), FALSE)
    /\ UNCHANGED <<version_list, configVars, cacheVars, reconVars, access,
                   staging, uploads, n_deploys, providerVars>>

\* ------------------------------------------- the providers, on their own

\* Pack Key: content/packs/{id}/{version}/{id}.zip, as its path segments.
\* (BaseArtifactProvider.get_pack_path, and key_name in ArtifactProvider.)
PackPath(pack_id, pack_version) ==
    <<"content", "packs", pack_id, pack_version, <<pack_id, "zip">>>>

\* The keys of the objects in the storage.
StoredKeys == {PackPath(o[1], o[2]) : o \in stored}

\* The characters of a version string, and of the directory name it makes
\* ("1.10.0/"): the storage lists keys in the order of their characters.
DigitChars(n) ==
    IF n < 10 THEN <<48 + n>> ELSE <<48 + (n \div 10), 48 + (n % 10)>>

RECURSIVE VersionChars(_)
VersionChars(v) ==
    IF Len(v) = 0 THEN <<>>
    ELSE IF Len(v) = 1 THEN DigitChars(v[1])
    ELSE DigitChars(v[1]) \o <<46>> \o VersionChars(Tail(v))

DirChars(v) == VersionChars(v) \o <<47>>

\* The keys under content/packs/{id}/, in the order the storage lists them.
RECURSIVE SortedKeys(_)
SortedKeys(keys) ==
    IF keys = {} THEN <<>>
    ELSE LET first == CHOOSE k \in keys :
                         \A other \in keys \ {k} :
                            TupleLess(DirChars(k[4]), DirChars(other[4]))
         IN <<first>> \o SortedKeys(keys \ {first})

KeysUnder(pack_id) ==
    SortedKeys({k \in StoredKeys : k[1] = "content" /\ k[2] = "packs"
                                   /\ k[3] = pack_id})

\* x.split("/")[3] of a listed name: its fourth segment.
VersionSegment(key) == key[4]

\* What a listing call of the storage answers for pack_id: the version
\* names of the keys under its prefix, or a failure.
ListingOf(pack_id, fails) ==
    IF fails THEN [ok |-> FALSE, versions |-> <<>>]
    ELSE [ok |-> TRUE,
          versions |-> [i \in 1..Len(KeysUnder(pack_id)) |->
                           VersionSegment(KeysUnder(pack_id)[i])]]

\* What a request for one object answers.
AnswerOf(pack_id, pack_version, fails) ==
    IF fails THEN "error"
    ELSE IF PackPath(pack_id, pack_version) \in StoredKeys THEN "found"
    ELSE "missing"

\* The provider classes and the storage each talks to.
Implementations ==
    {[class |-> "ArtifactProvider", repo |-> "S3"],
     [class |-> "ArtifactProvider", repo |-> "Azure"],
     [class |-> "S3ArtifactProvider", repo |-> "S3"],
     [class |-> "AzureArtifactProvider", repo |-> "Azure"]}

\* AzureArtifactProvider.service: the BlobServiceClient is made on the
\* first read; the token is the constructor's, else the environment's, else
\* RuntimeError.  The fields after the property is read, and whether
\* reading it raised.  The other classes have no such property: their
\* fields stay as __init__ left them.
Service ==
    IF provider_class # "AzureArtifactProvider" \/ service
    THEN [raised |-> FALSE, token |-> access_token, service |-> service,
          made |-> 0]
    ELSE IF access_token # ""
    THEN [raised |-> FALSE, token |-> access_token, service |-> TRUE,
          made |-> 1]
    ELSE IF env_token # ""
    THEN [raised |-> FALSE, token |-> env_token, service |-> TRUE,
          made |-> 1]
    ELSE [raised |-> TRUE, token |-> access_token, service |-> FALSE,
          made |-> 0]

\* AzureArtifactProvider.container_client: made on the first read, from
\* self.service; a read of .service that raises leaves it unset.
ContainerClient ==
    IF provider_class # "AzureArtifactProvider" \/ container_client
    THEN [raised |-> FALSE, token |-> access_token, service |-> service,
          container |-> container_client, made |-> 0]
    ELSE [raised |-> Service.raised, token |-> Service.token,
          service |-> Service.service, container |-> ~Service.raised,
          made |-> Service.made]

UseContainerClient(c) ==
    /\ access_token' = c.token
    /\ service' = c.service
    /\ container_client' = c.container
    /\ n_services' = n_services + c.made
    /\ UNCHANGED env_token

\* A read of the property .service of an AzureArtifactProvider.
read_service ==
    /\ provider_class = "AzureArtifactProvider"
    /\ access_token' = Service.token
    /\ service' = Service.service
    /\ n_services' = n_services + Service.made
    /\ ret' = Call("service",
                   IF Service.raised THEN Raised("RuntimeError")
                   ELSE Returned("BlobServiceClient"),
                   FALSE)
    /\ UNCHANGED <<version_list, configVars, cacheVars, reconVars, deployVars,
                   provider_class, stored, probe, env_token, container_client>>

\* A read of the property .container_client of an AzureArtifactProvider.
read_container_client ==
    /\ provider_class = "AzureArtifactProvider"
    /\ UseContainerClient(ContainerClient)
    /\ ret' = Call("container_client",
                   IF ContainerClient.raised THEN Raised("RuntimeError")
                   ELSE Returned("ContainerClient"),
                   FALSE)
    /\ UNCHANGED <<version_list, configVars, cacheVars, reconVars, deployVars,
                   provider_class, stored, probe>>

\* S3ArtifactProvider.is_available: as ArtifactProvider._is_available_s3.
\* AzureArtifactProvider.is_available: as _is_available_azure, behind the
\* container_client property.
ProviderIsAvailable(class, repo, answer, c) ==
    IF class = "AzureArtifactProvider" /\ c.raised THEN Raised("RuntimeError")
    ELSE IF repo = "S3" THEN IsAvailableS3(answer)
    ELSE IsAvailableAzure(answer)

\* S3ArtifactProvider.get_latest_version: result.get("CommonPrefixes", [])
\* is the empty list when nothing is stored, and max() of it raises
\* ValueError.
GetLatestVersionS3Provider(listing) ==
    IF ~listing.ok THEN Raised("ClientError")
    ELSE IF listing.versions = <<>> THEN Raised("ValueError")
    ELSE Returned(MaxByVersion(listing.versions))

\* get_latest_version of each class.  AzureArtifactProvider's is
\* _get_latest_version_azure behind the container_client property.
ProviderGetLatestVersion(class, repo, listing, c) ==
    IF class = "AzureArtifactProvider" /\ c.raised THEN Raised("RuntimeError")
    ELSE IF class = "ArtifactProvider" THEN GetLatestVersion(repo, listing)
    ELSE IF class = "S3ArtifactProvider" THEN GetLatestVersionS3Provider(listing)
    ELSE GetLatestVersionAzure(listing)

\* What bucket.load() does: it returns, or raises one of the four errors
\* the code names, or another one (ClientError for a bucket that is
\* missing or forbidden).
BucketLoads ==
    {"ok", "NoCredentialsError", "PartialCredentialsError",
     "EndpointConnectionError", "ConnectTimeoutError", "ClientError"}

\* What get_container_properties() does.
ContainerLoads == {"ok", "HttpResponseError"}

RoundTripsOf(repo) == IF repo = "S3" THEN BucketLoads ELSE ContainerLoads

\* The four handlers test_connection shares in both bucket classes.
NamedFailure(trip) ==
    IF trip = "NoCredentialsError"
    THEN RaisedWith("RuntimeError", "AWS credentials not found.")
    ELSE IF trip = "PartialCredentialsError"
    THEN RaisedWith("RuntimeError", "Incomplete AWS credentials.")
    ELSE IF trip = "EndpointConnectionError"
    THEN RaisedWith("RuntimeError", "Could not connect to the S3")
    ELSE RaisedWith("RuntimeError", "Connection timed out")

NamedFailures ==
    {"NoCredentialsError", "PartialCredentialsError",
     "EndpointConnectionError", "ConnectTimeoutError"}

\* ArtifactProvider._test_connection_aws: after the four handlers,
\* "except Exception" prints the error and falls through to return True.
TestConnectionAws(trip) ==
    IF trip \in NamedFailures THEN NamedFailure(trip)
    ELSE Returned(TRUE)

\* S3ArtifactProvider.test_connection: the four handlers only; any other
\* exception leaves the method as it is.
TestConnectionS3Provider(trip) ==
    IF trip = "ok" THEN Returned(TRUE)
    ELSE IF trip \in NamedFailures THEN NamedFailure(trip)
    ELSE Raised(trip)

\* _test_connection_azure and AzureArtifactProvider.test_connection: no
\* handler at all.
TestConnectionAzure(trip) ==
    IF trip = "ok" THEN Returned(TRUE) ELSE Raised(trip)

\* ArtifactProvider.test_connection: dispatch on artifacts_repo, False for
\* no repository.
TestConnection(repo, trip) ==
    IF repo = "S3" THEN TestConnectionAws(trip)
    ELSE IF repo = "Azure" THEN TestConnectionAzure(trip)
    ELSE Returned(FALSE)

ProviderTestConnection(class, repo, trip, c) ==
    IF class = "AzureArtifactProvider" /\ c.raised THEN Raised("RuntimeError")
    ELSE IF class = "ArtifactProvider" THEN TestConnection(repo, trip)
    ELSE IF class = "S3ArtifactProvider" THEN TestConnectionS3Provider(trip)
    ELSE TestConnectionAzure(trip)

\* download of each class; AzureArtifactProvider's is _download_azure
\* behind the container_client property.
ProviderDownload(class, repo, answer, pack_id, pack_version, c) ==
    IF class = "AzureArtifactProvider" /\ c.raised THEN Raised("RuntimeError")
    ELSE Download(repo, answer, pack_id, pack_version)

provider_test_connection(trip) ==
    LET c == ContainerClient IN
    /\ trip \in RoundTripsOf(artifacts_repo)
    /\ UseContainerClient(c)
    /\ probe' = IF c.raised THEN "unasked" ELSE trip
    /\ args' = NoArgs
    /\ ret' = Call("test_connection",
                   ProviderTestConnection(provider_class, artifacts_repo, trip, c),
                   FALSE)
    /\ UNCHANGED <<version_list, configVars, cacheVars, reconVars, access, staging, uploads,
                   n_deploys, provider_class, stored>>

provider_download(pack_id, pack_version, fails) ==
    LET c == ContainerClient
        answer == IF c.raised THEN "unasked"
                  ELSE AnswerOf(pack_id, pack_version, fails)
    IN
    /\ UseContainerClient(c)
    /\ probe' = answer
    /\ args' = Args(pack_id, pack_version, TRUE)
    /\ ret' = Call("download",
                   ProviderDownload(provider_class, artifacts_repo, answer,
                                    pack_id, pack_version, c),
                   FALSE)
    /\ UNCHANGED <<version_list, configVars, cacheVars, reconVars, access, staging, uploads,
                   n_deploys, provider_class, stored>>

provider_is_available(pack_id, pack_version, fails) ==
    LET c == ContainerClient
        answer == IF c.raised THEN "unasked"
                  ELSE AnswerOf(pack_id, pack_version, fails)
    IN
    /\ UseContainerClient(c)
    /\ probe' = answer
    /\ args' = Args(pack_id, pack_version, TRUE)
    /\ ret' = Call("is_available",
                   ProviderIsAvailable(provider_class, artifacts_repo, answer, c),
                   FALSE)
    /\ UNCHANGED <<version_list, configVars, cacheVars, reconVars, access, staging, uploads,
                   n_deploys, provider_class, stored>>

provider_get_latest_version(pack_id, fails) ==
    LET c == ContainerClient
        listing == ListingOf(pack_id, fails)
    IN
    /\ UseContainerClient(c)
    /\ probe' = IF c.raised THEN "unasked"
                ELSE Listed(artifacts_repo, listing)
    /\ args' = Args(pack_id, <<>>, TRUE)
    /\ ret' = Call("get_latest_version",
                   ProviderGetLatestVersion(provider_class, artifacts_repo,
                                            listing, c),
                   FALSE)
    /\ UNCHANGED <<version_list, configVars, cacheVars, reconVars, access, staging, uploads,
                   n_deploys, provider_class, stored>>

\* The versions a storage may hold of a pack.
StoredVersions == {<<1, 2>>, <<1, 2, 0>>, <<1, 10, 0>>}

\* A provider after construction, over a storage with some contents.
\* ArtifactProvider(location="Azure") makes its handles in __init__, from
\* the environment variable SAS_TOKEN, which is set wherever __init__ did
\* not raise; AzureArtifactProvider makes none.
InitProvider ==
    /\ InitClientFields({XSOAR_OLD_VERSION})
    /\ \E impl \in Implementations :
          /\ provider_class = impl.class
          /\ artifacts_repo = impl.repo
          /\ IF impl.class = "AzureArtifactProvider"
             THEN /\ access_token \in {"", "sas-param"}
                  /\ env_token \in {"", "sas-env"}
                  /\ service = FALSE
                  /\ container_client = FALSE
                  /\ n_services = 0
             ELSE /\ access_token = ""
                  /\ env_token = IF impl.repo = "Azure" THEN "sas-env" ELSE ""
                  /\ service = (impl.repo = "Azure")
                  /\ container_client = (impl.repo = "Azure")
                  /\ n_services = IF impl.repo = "Azure" THEN 1 ELSE 0
    /\ stored \in SUBSET (PackIds \X StoredVersions)
    /\ probe = "unasked"

NextProvider ==
    \/ \E pack_id \in PackIds, fails \in BOOLEAN :
          \/ \E pack_version \in StoredVersions :
                \/ provider_is_available(pack_id, pack_version, fails)
                \/ provider_download(pack_id, pack_version, fails)
          \/ provider_get_latest_version(pack_id, fails)
    \/ \E trip \in BucketLoads \cup ContainerLoads :
          provider_test_connection(trip)
    \/ read_service
    \/ read_container_client

SpecProvider == InitProvider /\ [][NextProvider]_vars

\* ----------------------------------------- version strings and their max

\* The bounds of the version lists given to max().
MaxLen == 3

\* packaging.version.parse reads a release "1.10.0" as the integers between
\* its dots; a version string is kept here as its characters ('.' is 46,
\* '0' is 48).
RECURSIVE ParseFrom(_, _, _, _)
ParseFrom(chars, i, cur, acc) ==
    IF i > Len(chars) THEN Append(acc, cur)
    ELSE IF chars[i] = 46 THEN ParseFrom(chars, i + 1, 0, Append(acc, cur))
    ELSE ParseFrom(chars, i + 1, cur * 10 + (chars[i] - 48), acc)

ParseRelease(chars) == ParseFrom(chars, 1, 0, <<>>)

\* A key that compares the strings themselves, character by character.
KeyOfChars(chars) == chars

\* The key max() compares: version.parse of the string.
KeyOf(chars) == VersionParse(ParseRelease(chars))

\* key(a) < key(b), on version strings.
KeyLess(a, b) == TupleLess(KeyOf(a), KeyOf(b))

\* "1.2", "1.2.0", "1.02", "1.10.0", "1.10": valid version strings.
VersionStrings ==
    {<<49, 46, 50>>, <<49, 46, 50, 46, 48>>, <<49, 46, 48, 50>>,
     <<49, 46, 49, 48, 46, 48>>, <<49, 46, 49, 48>>}

RECURSIVE ListsOfLen(_)
ListsOfLen(n) ==
    IF n = 0 THEN {<<>>}
    ELSE {Append(l, v) : l \in ListsOfLen(n - 1), v \in VersionStrings}

VersionLists == UNION {ListsOfLen(n) : n \in 0..MaxLen}

\* Python's max(strings, key=version.parse): ValueError on an empty list,
\* else the first element whose key no later one exceeds.
RECURSIVE MaxKeyIndex(_, _, _)
MaxKeyIndex(strings, i, best) ==
    IF i > Len(strings) THEN best
    ELSE MaxKeyIndex(strings, i + 1,
                     IF KeyLess(strings[best], strings[i]) THEN i ELSE best)

MaxByKey(strings) ==
    IF strings = <<>> THEN Raised("ValueError")
    ELSE Returned(strings[MaxKeyIndex(strings, 2, 1)])

\* max(version_list, key=version.parse), as get_latest_version and
\* get_outdated_packs call it.
max_by_version(strings) ==
    /\ version_list' = strings
    /\ ret' = Call("max", MaxByKey(strings), FALSE)
    /\ UNCHANGED <<configVars, cacheVars, reconVars, deployVars, providerVars>>

\* version.parse(a) < version.parse(b), the comparison max() rests on.
version_less(a, b) ==
    /\ version_list' = <<a, b>>
    /\ ret' = Call("less", Returned(KeyLess(a, b)), FALSE)
    /\ UNCHANGED <<configVars, cacheVars, reconVars, deployVars, providerVars>>

\* ------------------------------------------------------- specifications

\* The answers the platform may give to a call that reads cache: one of
\* Responses when the call sends a request, and none when it does not.
NoResponse == [status |-> 0, body |-> NoneVal]
AnswersFor(cache) == IF NeedsFetch(cache) THEN Responses ELSE {NoResponse}

\* The list get_outdated_packs iterates over when the platform answers resp.
ExpiredAfter(resp) ==
    LET f == CachedFetch(installed_expired, resp) IN
    IF f.out.kind = "return" /\ f.out.value.tag = "list"
    THEN f.out.value.items ELSE <<>>

\* Listings of the storage, one per pack identifier; the listing of a pack
\* the provider is not asked about is left empty.
ListingsFor(packs) ==
    LET asked == {packs[i].id : i \in
                    {j \in 1..Len(packs) : IsCustom(packs[j], custom_pack_authors)}}
    IN {l \in [PackIds -> ListingOutcomes] :
          \A id \in PackIds \ asked : l[id] = [ok |-> TRUE, versions |-> <<>>]}

\* Reconciliation: the installed-expired query and get_outdated_packs.
Next ==
    \/ \E resp \in AnswersFor(installed_expired) :
          get_installed_expired_packs(resp)
    \/ \E resp \in AnswersFor(installed_expired) :
          \E listings \in ListingsFor(ExpiredAfter(resp)) :
             get_outdated_packs(resp, listings)

\* The Client as the repository's test builds it (server_version=6, custom
\* pack author "MyOrg"), with and without an artifacts location.
Init == InitClient({XSOAR_OLD_VERSION}, {"S3", "None"})

Spec == Init /\ [][Next]_vars

\* The two one-shot caches alone, on a Client of either platform version.
\* The platform's lists are short here: what matters is which list it is.
SampleRecord(cur) ==
    [id |-> 1, currentVersion |-> cur, author |-> "MyOrg",
     updateAvailable |-> FALSE, changelog |-> <<>>]

\* The answers to a fetch: none (transport error), a status raise_for_status
\* rejects, a final 3xx answer (300, which requests does not follow), which
\* it accepts, and 200; an accepted answer carries null or a list.
CacheResponses ==
    {[status |-> 0, body |-> NoneVal]}
    \cup [status : {404, 500}, body : {NoneVal}]
    \cup [status : {300}, body : {ListVal(<<>>)}]
    \cup [status : {200},
          body : {NoneVal, ListVal(<<>>)}
                 \cup {ListVal(<<SampleRecord(c)>>) : c \in CurrentPool}]

CacheAnswersFor(cache) ==
    IF NeedsFetch(cache) THEN CacheResponses ELSE {NoResponse}

\* The pack identifiers and versions is_installed is asked about: those of
\* the records, one that is not installed, and no version at all.
AskedIds == PackIds \cup {MaxPacks + 1}
AskedVersions == CurrentPool \cup {<<>>}

\* The answers to a call on an item: none when no request is sent.
PlatformResponses ==
    {[status |-> 0, body |-> NoneVal], [status |-> 500, body |-> NoneVal],
     [status |-> 300, body |-> ListVal(<<>>)],
     [status |-> 200, body |-> ListVal(<<>>)]}

ItemAnswersFor(item_type) ==
    IF HasEndpoint(item_type) THEN PlatformResponses ELSE {NoResponse}

NextCache ==
    \/ \E resp \in CacheAnswersFor(installed_packs) :
          get_installed_packs(resp)
    \/ \E resp \in CacheAnswersFor(installed_packs),
          pack_id \in AskedIds, pack_version \in AskedVersions :
          is_installed(pack_id, pack_version, resp)
    \/ \E resp \in CacheAnswersFor(installed_expired) :
          get_installed_expired_packs(resp)

\* The other calls of the Client, among fetches of the installed packs:
\* the health check, cases, items, and the calls that end at once.
NextPlatform ==
    \/ \E resp \in PlatformResponses :
          \/ test_connectivity(resp)
          \/ get_case(resp)
          \/ create_case(resp)
    \/ \E item_type \in ItemTypes, item_id \in ItemIds :
          \E resp \in ItemAnswersFor(item_type) :
             \/ download_item(item_type, item_id, resp)
             \/ attach_item(item_type, item_id, resp)
             \/ detach_item(item_type, item_id, resp)
    \/ \E skip_validation, skip_verify \in BOOLEAN, upload \in UploadOutcomes :
          deploy_zip(skip_validation, skip_verify, upload)
    \/ \E pack_id \in PackIds : delete(pack_id)
    \/ \E resp \in CacheAnswersFor(installed_packs) :
          get_installed_packs(resp)

InitCache ==
    InitClient({XSOAR_OLD_VERSION, XSOAR_OLD_VERSION + 2}, {"S3"})

SpecCache == InitCache /\ [][NextCache]_vars

SpecPlatform == InitCache /\ [][NextPlatform]_vars

\* The versions asked for, and the answers drawn: of the storage for a
\* custom pack, of the marketplace for an upstream one.
DeployVersions == {<<1, 2>>}
StorageAnswersFor(custom) == IF custom THEN ObjectAnswers ELSE {"unasked"}
MarketAnswersFor(custom) == IF custom THEN {0} ELSE MarketStatuses

\* Pack operations: availability, download and deployment.
NextDeploy ==
    \/ \E pack_id \in PackIds, pack_version \in DeployVersions,
          custom \in BOOLEAN :
       \E answer \in StorageAnswersFor(custom),
          status \in MarketAnswersFor(custom) :
          \/ is_pack_available(pack_id, pack_version, custom, answer, status)
          \/ download_pack(pack_id, pack_version, custom, answer, status)
          \/ \E write_fails \in BOOLEAN, upload \in UploadOutcomes,
                collected \in BOOLEAN :
                deploy_pack(pack_id, pack_version, custom, answer, status,
                            write_fails, upload, collected)
    \/ \E file \in staging : finalize_tmp(file)

NextVersion ==
    \/ \E strings \in VersionLists : max_by_version(strings)
    \/ \E a, b \in VersionStrings : version_less(a, b)

InitVersion == InitClient({XSOAR_OLD_VERSION}, {"S3"})

SpecVersion == InitVersion /\ [][NextVersion]_vars

SpecDeploy == Init /\ [][NextDeploy]_vars

\* ------------------------------------------------------------ claims

\* C1 as stated: the total number of underlying requests of each
\* installed-packs query is at most one.
C1_AtMostOneRequest == \A q \in Queries : n_requests[q] <= 1

\* C1, amended: at most one request per query is answered with a list, and
\* once a cache holds a list every call of its query returns that list,
\* leaves the cache as it is and sends no request.  Requests that failed
\* before are not bounded by one.
C1_CachedStep(q, cache, cacheAfter, called) ==
    (cache.tag = "list" /\ called) =>
        /\ cacheAfter = cache
        /\ n_requests'[q] = n_requests[q]
        /\ ret'.kind = "return"
        /\ ret'.value = cache
        /\ ~ret'.sent

\* The same of is_installed, which reads the installed packs through
\* get_installed_packs and returns a boolean.
C1_IsInstalledStep ==
    (/\ installed_packs.tag = "list"
     /\ ret'.op = "is_installed"
     /\ \E resp \in CacheResponses, pack_id \in AskedIds,
           pack_version \in AskedVersions :
           is_installed(pack_id, pack_version, resp))
    => /\ installed_packs' = installed_packs
       /\ n_requests' = n_requests
       /\ ret'.kind = "return"
       /\ ret'.value \in BOOLEAN
       /\ ~ret'.sent

C1_CachedAfterFetch ==
    /\ [](\A q \in Queries : n_fetched[q] <= 1)
    /\ [][/\ C1_IsInstalledStep
          /\ C1_CachedStep("installed", installed_packs, installed_packs',
                           /\ ret'.op = "get_installed_packs"
                           /\ \E resp \in CacheResponses :
                                 get_installed_packs(resp))
          /\ C1_CachedStep("expired", installed_expired, installed_expired',
                           /\ ret'.op = "get_installed_expired_packs"
                           /\ \E resp \in CacheResponses :
                                 get_installed_expired_packs(resp))]_vars

\* C1's case: a first call failed, a second one fetched a list, and the
\* last call was served from the cache without a request.
C1_Witness ==
    /\ ret.op = "get_installed_packs"
    /\ ret.kind = "return"
    /\ ~ret.sent
    /\ installed_packs.tag = "list"
    /\ installed_packs.items # <<>>
    /\ n_requests["installed"] = 2
    /\ n_fetched["installed"] = 1

\* The entries of the list get_outdated_packs built that carry pack id.
EntriesOf(id) ==
    {k \in 1..Len(update_available) : update_available[k].id = id}

\* The provider calls get_outdated_packs made for pack id.
ProviderCallsOf(id) ==
    {k \in 1..Len(provider_log) : provider_log[k].id = id}

\* The records get_outdated_packs has gone through without raising.
ProcessedPacks ==
    IF installed_expired.tag = "list"
    THEN {installed_expired.items[i] : i \in 1..processed}
    ELSE {}

\* The record at which the loop of get_outdated_packs stopped by raising.
FailedPacks ==
    IF /\ ret.op = "get_outdated_packs"
       /\ ret.kind = "raise"
       /\ installed_expired.tag = "list"
       /\ processed < Len(installed_expired.items)
    THEN {installed_expired.items[processed + 1]}
    ELSE {}

\* C2 as stated: when the provider finds no version stored for a custom
\* record's pack, get_outdated_packs skips the record and still returns a
\* report, with no entry for that pack.
C2_NoVersionsSkipped ==
    (/\ ret.op = "get_outdated_packs"
     /\ \E k \in 1..Len(provider_log) : provider_log[k].listed = "empty")
    => /\ ret.kind = "return"
       /\ \A k \in 1..Len(provider_log) :
             provider_log[k].listed = "empty"
                => EntriesOf(provider_log[k].id) = {}

\* C3 as stated: every entry of the report has a latest version strictly
\* greater than its currentVersion under the version ordering.
C3_LatestExceedsCurrent ==
    (ret.op = "get_outdated_packs" /\ ret.kind = "return")
    => \A k \in 1..Len(ret.value.items) :
          VersionLess(ret.value.items[k].currentVersion,
                      ret.value.items[k].latest)

\* C4: for every custom-authored record for which the provider returned a
\* latest version, the list holds exactly one entry {id, currentVersion,
\* latest, author of the record} if latest differs from currentVersion (as
\* strings) and none if they are equal, whatever updateAvailable and
\* changelog are; a returned report is that list.
C4_CustomEntries ==
    /\ \A pack \in ProcessedPacks :
          IsCustom(pack, custom_pack_authors)
          => /\ Cardinality(ProviderCallsOf(pack.id)) = 1
             /\ \A c \in ProviderCallsOf(pack.id) :
                   /\ provider_log[c].kind = "return"
                   /\ IF provider_log[c].latest = pack.currentVersion
                      THEN EntriesOf(pack.id) = {}
                      ELSE /\ Cardinality(EntriesOf(pack.id)) = 1
                           /\ \A k \in EntriesOf(pack.id) :
                                 update_available[k] =
                                    [id |-> pack.id,
                                     currentVersion |-> pack.currentVersion,
                                     latest |-> provider_log[c].latest,
                                     author |-> pack.author]
    /\ (ret.op = "get_outdated_packs" /\ ret.kind = "return")
          => ret.value = ListVal(update_available)

\* C4's case: a custom-authored record with updateAvailable set and a
\* changelog, whose stored latest version "1.2.0" differs as a string from
\* the installed "1.2", has its entry in the returned report.
C4_Witness ==
    /\ ret.op = "get_outdated_packs"
    /\ ret.kind = "return"
    /\ \E pack \in ProcessedPacks :
          /\ IsCustom(pack, custom_pack_authors)
          /\ pack.updateAvailable
          /\ pack.changelog # <<>>
          /\ pack.currentVersion = <<1, 2>>
          /\ \E k \in EntriesOf(pack.id) :
                ret.value.items[k].latest = <<1, 2, 0>>

\* v is a maximum of the version list under the version ordering.
IsMaximumOf(v, versions) ==
    /\ \E k \in 1..Len(versions) : versions[k] = v
    /\ \A k \in 1..Len(versions) : ~VersionLess(v, versions[k])

\* What C5 says of one upstream-authored record: no provider call; no
\* entry without updateAvailable; with it, exactly one entry, whose latest
\* is the maximum of the changelog and whose author is "Upstream".
C5_UpstreamRecord(pack) ==
    /\ ProviderCallsOf(pack.id) = {}
    /\ ~pack.updateAvailable => EntriesOf(pack.id) = {}
    /\ pack.updateAvailable =>
          /\ Cardinality(EntriesOf(pack.id)) = 1
          /\ \A k \in EntriesOf(pack.id) :
                /\ update_available[k].id = pack.id
                /\ update_available[k].currentVersion = pack.currentVersion
                /\ update_available[k].author = "Upstream"
                /\ IsMaximumOf(update_available[k].latest, pack.changelog)

\* C5 as stated: it holds of every upstream-authored record the loop
\* reached, the one it stopped at included.
C5_UpstreamAlwaysEmitted ==
    \A pack \in ProcessedPacks \cup FailedPacks :
       ~IsCustom(pack, custom_pack_authors) => C5_UpstreamRecord(pack)

\* C5, amended: it holds of every upstream-authored record whose changelog
\* is not empty or whose updateAvailable is false; at a record with
\* updateAvailable and an empty changelog the call raises ValueError, with
\* no provider call and no entry for it.
C5_UpstreamEntries ==
    /\ \A pack \in ProcessedPacks :
          ~IsCustom(pack, custom_pack_authors)
          => /\ C5_UpstreamRecord(pack)
             /\ pack.updateAvailable => pack.changelog # <<>>
    /\ \A pack \in FailedPacks :
          ~IsCustom(pack, custom_pack_authors)
          => /\ pack.updateAvailable
             /\ pack.changelog = <<>>
             /\ ret.exc = "ValueError"
             /\ ProviderCallsOf(pack.id) = {}
             /\ EntriesOf(pack.id) = {}

\* C5's case: an upstream-authored record with updateAvailable and the
\* changelog ["1.2", "1.10.0"] has its entry, with latest "1.10.0", in the
\* returned report.
C5_Witness ==
    /\ ret.op = "get_outdated_packs"
    /\ ret.kind = "return"
    /\ \E pack \in ProcessedPacks :
          /\ ~IsCustom(pack, custom_pack_authors)
          /\ pack.updateAvailable
          /\ pack.changelog = <<<<1, 2>>, <<1, 10, 0>>>>
          /\ \E k \in EntriesOf(pack.id) :
                /\ ret.value.items[k].latest = <<1, 10, 0>>
                /\ ret.value.items[k].author = "Upstream"

\* C6: deploy_pack passes skip_validation and skip_verify to
\* upload_content_packs both as "true" when custom is true and both as
\* "false" when it is false: the two never differ from each other, nor from
\* the custom argument.
C6_FlagsFollowCustom ==
    ret.op = "deploy_pack"
    => \A k \in 1..Len(uploads) :
          /\ uploads[k].skip_validation = uploads[k].skip_verify
          /\ uploads[k].skip_verify = (IF args.custom THEN "true" ELSE "false")

\* C6's case: a deploy of a custom pack reached upload_content_packs with
\* both flags "true" and returned.
C6_Witness ==
    /\ ret.op = "deploy_pack"
    /\ ret.kind = "return"
    /\ args.custom
    /\ Len(uploads) = 1
    /\ uploads[1].skip_validation = "true"
    /\ uploads[1].skip_verify = "true"

\* C7 as stated: once deploy_pack has returned or raised, no staging file
\* exists, whichever way it ended and however many deploys came before.
C7_StagingFileRemoved == ret.op = "deploy_pack" => staging = {}

\* C8 as stated: is_available of every provider class never raises; it
\* returns true when the object at the Pack Key exists, and false when it
\* is absent and when the existence check failed in any other way.
C8_IsAvailableNeverRaises ==
    ret.op = "is_available"
    => /\ ret.kind = "return"
       /\ ret.value = (probe = "found")

\* C9 as stated: get_latest_version of every provider class returns the
\* maximum of the version segments stored under the pack's prefix when the
\* listing has any, and raises the one error kept for an empty listing
\* (ValueError, from max() of an empty list) when it has none.
NoVersionsFound == "ValueError"

C9_LatestOrNoVersionsFound ==
    ret.op = "get_latest_version"
    => /\ probe = "some"
          => /\ ret.kind = "return"
             /\ IsMaximumOf(ret.value, ListingOf(args.pack_id, FALSE).versions)
       /\ probe = "empty"
          => /\ ret.kind = "raise"
             /\ ret.exc = NoVersionsFound

\* C11 as stated: test_connection of the bucket-based classes returns true
\* only when the round trip to the bucket succeeded; every failed round
\* trip ends in the connection error (RuntimeError), the four named
\* failures each with a message of its own.
C11_TrueOnlyAfterRoundTrip ==
    (ret.op = "test_connection" /\ artifacts_repo = "S3")
    => /\ ret.kind = "return" => (ret.value = TRUE /\ probe = "ok")
       /\ probe # "ok" => (ret.kind = "raise" /\ ret.exc = "RuntimeError")
       /\ probe \in NamedFailures => ret = Call("test_connection", NamedFailure(probe), FALSE)
       /\ \A a, b \in NamedFailures :
             a # b => NamedFailure(a).value # NamedFailure(b).value

\* Numeric comparison of two releases, component by component, the shorter
\* one padded with zeros.
Padded(t, n) == [i \in 1..n |-> IF i <= Len(t) THEN t[i] ELSE 0]

PaddedLess(a, b) ==
    LET n == IF Len(a) < Len(b) THEN Len(b) ELSE Len(a) IN
    \E i \in 1..n :
       /\ Padded(a, n)[i] < Padded(b, n)[i]
       /\ \A j \in 1..(i - 1) : Padded(a, n)[j] = Padded(b, n)[j]

PaddedEqual(a, b) == ~PaddedLess(a, b) /\ ~PaddedLess(b, a)

\* The index max() must select: the first one no other element exceeds.
FirstMaximal(strings) ==
    CHOOSE k \in 1..Len(strings) :
       /\ \A j \in 1..Len(strings) :
             ~PaddedLess(ParseRelease(strings[k]), ParseRelease(strings[j]))
       /\ \A h \in 1..(k - 1) :
             \E j \in 1..Len(strings) :
                PaddedLess(ParseRelease(strings[h]), ParseRelease(strings[j]))

\* C12: the key of max() orders version strings by numeric comparison of
\* their components with missing trailing components read as zero
\* ("1.2.0" < "1.10.0", "1.2" equal to "1.2.0"); any two versions are
\* smaller, equal or greater, exactly one of the three, and smaller is
\* transitive; max() returns the first of the maximal elements, and raises
\* on an empty list instead of returning a value.
C12_VersionOrdering ==
    /\ KeyLess(<<49, 46, 50, 46, 48>>, <<49, 46, 49, 48, 46, 48>>)
    /\ KeyOf(<<49, 46, 50>>) = KeyOf(<<49, 46, 50, 46, 48>>)
    /\ \A a, b \in VersionStrings :
          /\ KeyLess(a, b) <=> PaddedLess(ParseRelease(a), ParseRelease(b))
          /\ (KeyOf(a) = KeyOf(b))
             <=> PaddedEqual(ParseRelease(a), ParseRelease(b))
          /\ ~(KeyLess(a, b) /\ KeyLess(b, a))
          /\ KeyLess(a, b) \/ KeyLess(b, a) \/ KeyOf(a) = KeyOf(b)
    /\ \A a, b, c \in VersionStrings :
          (KeyLess(a, b) /\ KeyLess(b, c)) => KeyLess(a, c)
    /\ ret.op = "less"
       => ret.value = PaddedLess(ParseRelease(version_list[1]),
                                 ParseRelease(version_list[2]))
    /\ ret.op = "max"
       => IF version_list = <<>>
          THEN ret.kind = "raise" /\ ret.exc = "ValueError"
          ELSE /\ ret.kind = "return"
               /\ ret.value = version_list[FirstMaximal(version_list)]

\* C12's case: max() was given a list whose maximal elements are two
\* different strings of equal key, after a smaller one that a comparison of
\* the strings would have preferred, and returned the first of the two.
C12_Witness ==
    /\ ret.op = "max"
    /\ ret.kind = "return"
    /\ \E i, j, h \in 1..Len(version_list) :
          /\ i < j
          /\ version_list[i] # version_list[j]
          /\ KeyOf(version_list[i]) = KeyOf(version_list[j])
          /\ ret.value = version_list[i]
          /\ TupleLess(ret.value, version_list[h])

\* What C13 says of one call of deploy_pack whose download_pack raised: the
\* call ends with that exception and upload_content_packs is not called.
C13_DownloadStep(pack_id, pack_version, custom, answer, status) ==
    LET dl == DownloadPack(custom, artifacts_repo, answer, status,
                           pack_id, pack_version) IN
    (/\ ret'.op = "deploy_pack"
     /\ args' = Args(pack_id, pack_version, custom)
     /\ dl.out.kind = "raise"
     /\ \E write_fails, collected \in BOOLEAN, upload \in UploadOutcomes :
           deploy_pack(pack_id, pack_version, custom, answer, status,
                       write_fails, upload, collected))
    => /\ ret'.kind = "raise"
       /\ ret'.exc = dl.out.exc
       /\ uploads' = <<>>

\* C13: a call of deploy_pack calls upload_content_packs at most once, and
\* only with a staging file that holds the bytes download_pack returned; a
\* failed download ends the call with its error and without an upload; an
\* upload the platform rejects (ApiException) ends it with RuntimeError;
\* True is returned only after an upload that raised nothing.
C13_InstallAfterDownload ==
    /\ [](ret.op = "deploy_pack"
          => /\ Len(uploads) <= 1
             /\ \A k \in 1..Len(uploads) :
                   /\ uploads[k].file = n_deploys
                   /\ uploads[k].written = PackBytes(args.pack_id,
                                                     args.pack_version)
                   /\ uploads[k].outcome = "ApiException"
                      => (ret.kind = "raise" /\ ret.exc = "RuntimeError")
             /\ ret.kind = "return"
                => /\ ret.value = TRUE
                   /\ Len(uploads) = 1
                   /\ uploads[1].outcome = "ok")
    /\ [][\A pack_id \in PackIds, pack_version \in DeployVersions,
             custom \in BOOLEAN :
             \A answer \in StorageAnswersFor(custom),
                status \in MarketAnswersFor(custom) :
                C13_DownloadStep(pack_id, pack_version, custom, answer, status)]_vars

\* C13's case: the download returned, the bytes were staged, the one upload
\* was rejected by the platform and the caller got RuntimeError.
C13_Witness ==
    /\ ret.op = "deploy_pack"
    /\ Len(uploads) = 1
    /\ uploads[1].written = PackBytes(args.pack_id, args.pack_version)
    /\ uploads[1].outcome = "ApiException"
    /\ ret.kind = "raise"
    /\ ret.exc = "RuntimeError"

\* A fetch that fails, as the claim words it: no answer, or a status
\* outside 200..299.
C14_Failed(resp) == resp.status = 0 \/ resp.status < 200 \/ resp.status > 299

\* A fetch that fails, as the code has it: no answer, or a 4xx/5xx status.
C14_Rejected(resp) ==
    resp.status = 0 \/ (resp.status >= 400 /\ resp.status <= 599)

\* What C14 says of one call of a query answered resp, failed telling
\* whether that answer is a failed fetch: the other cache is
\* left as it is; on a cache never filled a request is sent, a failed fetch
\* raises its error and leaves the cache None, and a fetched empty list
\* fills it; on a cache holding the empty list no request is sent and the
\* empty list is returned.
C14_FetchStep(q, cache, cacheAfter, other, otherAfter, resp, failed, called) ==
    called =>
       /\ otherAfter = other
       /\ cache = NoneVal
          => /\ ret'.sent
             /\ n_requests'[q] = n_requests[q] + 1
             /\ failed
                => /\ ret'.kind = "raise"
                   /\ ret'.exc \in {"ConnectionError", "HTTPError"}
                   /\ cacheAfter = NoneVal
             /\ (~failed /\ resp.body = ListVal(<<>>))
                => /\ ret'.kind = "return"
                   /\ ret'.value = ListVal(<<>>)
                   /\ cacheAfter = ListVal(<<>>)
       /\ cache = ListVal(<<>>)
          => /\ ~ret'.sent
             /\ n_requests' = n_requests
             /\ cacheAfter = cache
             /\ ret'.kind = "return"
             /\ ret'.value = ListVal(<<>>)

\* The same of a call of is_installed answered resp, which fetches the
\* installed packs through get_installed_packs.
C14_IsInstalledStep(resp, failed) ==
    (/\ ret'.op = "is_installed"
     /\ \E pack_id \in AskedIds, pack_version \in AskedVersions :
           is_installed(pack_id, pack_version, resp))
    => /\ installed_expired' = installed_expired
       /\ installed_packs = NoneVal
          => /\ ret'.sent
             /\ n_requests'["installed"] = n_requests["installed"] + 1
             /\ failed
                => /\ ret'.kind = "raise"
                   /\ ret'.exc \in {"ConnectionError", "HTTPError"}
                   /\ installed_packs' = NoneVal
             /\ (~failed /\ resp.body = ListVal(<<>>))
                => /\ ret'.kind = "return"
                   /\ ret'.value = FALSE
                   /\ installed_packs' = ListVal(<<>>)
       /\ installed_packs = ListVal(<<>>)
          => /\ ~ret'.sent
             /\ n_requests' = n_requests
             /\ installed_packs' = installed_packs
             /\ ret'.kind = "return"
             /\ ret'.value = FALSE

\* What C14 says of every call answered from CacheResponses, failed(resp)
\* telling which answers are failed fetches.
C14_Steps(failed(_)) ==
    \A resp \in CacheResponses :
       /\ ListVal(<<>>) # NoneVal
       /\ C14_IsInstalledStep(resp, failed(resp))
       /\ C14_FetchStep("installed", installed_packs, installed_packs',
                        installed_expired, installed_expired', resp,
                        failed(resp),
                        /\ ret'.op = "get_installed_packs"
                        /\ get_installed_packs(resp))
       /\ C14_FetchStep("expired", installed_expired, installed_expired',
                        installed_packs, installed_packs', resp,
                        failed(resp),
                        /\ ret'.op = "get_installed_expired_packs"
                        /\ get_installed_expired_packs(resp))

\* C14 as stated: the caches tell "not yet fetched" (None) from "fetched,
\* empty list": a fetch that fails on a transport error or any non-2xx
\* status propagates its error and leaves the cache None, so that the next
\* call sends a request again; a fetched empty list fills the cache, so
\* that the next call sends none; a call of one query never changes the
\* cache of the other.
C14_EmptyIsFetched == [][C14_Steps(C14_Failed)]_vars

\* C14, amended: the same, a failed fetch being a transport error or a
\* 4xx/5xx status; an answer of any other final status that carries the
\* empty list (a 3xx among them) is a fetch that succeeded and fills the
\* cache.
C14_EmptyIsFetchedUnlessRejected == [][C14_Steps(C14_Rejected)]_vars

\* C14's case: a first fetch failed, the next call sent a second request
\* and got the empty list, and the call after that was served from the
\* cache without a request, the other cache still never filled.
C14_Witness ==
    /\ ret.op = "get_installed_packs"
    /\ ret.kind = "return"
    /\ ~ret.sent
    /\ ret.value = ListVal(<<>>)
    /\ installed_packs = ListVal(<<>>)
    /\ n_requests["installed"] = 2
    /\ n_fetched["installed"] = 1
    /\ installed_expired = NoneVal

\* What C15 says of one step of a container-based provider: a token given
\* to the constructor is the one used; without it the first use takes the
\* token of the environment; a handle, once made, is kept and no second
\* connection is made.
C15_Step ==
    /\ access_token # "" => access_token' = access_token
    /\ (access_token = "" /\ service')
       => (env_token # "" /\ access_token' = env_token)
    /\ service => (service' /\ n_services' = n_services)
    /\ container_client => container_client'
    /\ (~service /\ access_token = "" /\ env_token = "")
       => /\ ret'.kind = "raise"
          /\ ret'.exc = "RuntimeError"
          /\ ~service' /\ ~container_client' /\ n_services' = 0

\* C15 as stated: a container-based provider resolves no token and makes
\* no connection at construction; the first operation resolves the token
\* from the constructor's parameter, else from the environment, and raises
\* the configuration error (RuntimeError), making no connection and
\* leaving the handles unset, when there is neither; a connection is made
\* at most once and then reused.
C15_LazyConnection ==
    /\ [](artifacts_repo = "Azure"
          => /\ ret.op = "__init__"
                => (~service /\ ~container_client /\ n_services = 0)
             /\ n_services <= 1
             /\ n_services = (IF service THEN 1 ELSE 0)
             /\ container_client => service
             /\ service => access_token # "")
    /\ [][artifacts_repo = "Azure" => C15_Step]_vars

\* C10: on a Client without an artifacts location, is_pack_available and
\* download_pack with custom=true raise the provider's configuration error
\* (NotImplementedError) and reach neither the storage nor the marketplace;
\* with custom=false they call no method of the provider.
C10_NoProviderConfigured ==
    ret.op \in {"is_pack_available", "download_pack"}
    => /\ (args.custom /\ artifacts_repo = "None")
          => /\ ret.kind = "raise"
             /\ ret.exc = "NotImplementedError"
             /\ ~access.storage
             /\ ~access.marketplace
       /\ ~args.custom => (~access.provider /\ ~access.storage)

\* C10's case: is_pack_available(custom=true) was called on a Client
\* without an artifacts location and raised.
C10_Witness ==
    /\ ret.op = "is_pack_available"
    /\ args.custom
    /\ artifacts_repo = "None"
    /\ ret.kind = "raise"
    /\ access.provider

====
